---- MODULE Spec2Model ----
(***************************************************************************)
(* ReportsService (src/src/reports/reports.service.ts): four read-only     *)
(* aggregate reports over one user's TodoList, each an async function that  *)
(* awaits a TodoList lookup and then at most one Task query.                *)
(*                                                                         *)
(* Timestamps are local wall-clock ticks, TicksPerDay ticks to a day        *)
(* (moment formats and diffs in local time).  The Task and TodoList tables  *)
(* are the data store; one invocation of the service is in flight at a      *)
(* time, its position held in pc.                                           *)
(***************************************************************************)
EXTENDS Integers, Sequences, FiniteSets, Bags, TLC

\* ---------------------------------------------------------------- bounds
MaxTasks == 3
MaxTime == 3
MaxNow == 4
\* store changes by other request handlers during one invocation
MaxChanges == 2

\* One day of moment's 'days' unit and of format('YYYY-MM-DD'), in ticks.
TicksPerDay == 2
\* SQL NULL of the nullable column Task.completionDateTime.
NullTime == -1

Users == {1, 2}
\* TodoList rows that may exist: at most one per user, ids independent of user ids.
TodoLists == {[id |-> 2, userId |-> 1], [id |-> 1, userId |-> 2]}
Errors == {"ConnectionError", "QueryError"}
OpNames == {"getTaskCount", "getAvgTasksPerDay",
            "getTasksNotCompletedOnTime", "getDateWithMostCompletedTasks"}

CompletionTimes == 0..MaxTime
\* The reports read dueDateTime only to compare it with completionDateTime: one
\* deadline, with completion times before, at and after it, gives every outcome.
Deadline == MaxTime - 1
DueTimes == {Deadline}

\* Task rows: a pending task has no completionDateTime, a completed one has it set.
TaskRows(listIds) ==
    [todoListId : listIds, completionStatus : {FALSE},
     completionDateTime : {NullTime}, dueDateTime : DueTimes]
    \cup
    [todoListId : listIds, completionStatus : {TRUE},
     completionDateTime : CompletionTimes, dueDateTime : DueTimes]

RECURSIVE BagsUpTo(_, _)
BagsUpTo(rows, n) ==
    IF n = 0 THEN {EmptyBag}
    ELSE LET smaller == BagsUpTo(rows, n - 1)
         IN  smaller \cup {b (+) SetToBag({t}) : b \in smaller, t \in rows}

VARIABLES
    todoListTable,   \* the TodoList table: a set of rows [id, userId]
    taskTable,       \* the Task table: a bag of rows
    pc,              \* position of the invocation in flight
    op,              \* the operation invoked
    user,            \* user.id of the argument
    createdAt,       \* user.createdAt, once read
    now,             \* moment(), once read
    todolist,        \* const todolist
    daysSinceAccountCreation,
    totalTasks,      \* const totalTasks = {count, rows} of findAndCountAll
    tasks,           \* const tasks of getDateWithMostCompletedTasks
    result,          \* the value the promise resolved with
    error,           \* the error the promise rejected with
    raised,          \* history: the error the data layer raised
    issued,          \* history: the statements sent to the data layer
    prev,            \* history: result of the same call made just before
    seen,            \* history: <<N, K>> of the user's list in each store state of a getTaskCount call
    changes          \* history: store changes by other handlers during the invocation

store == <<todoListTable, taskTable>>
locals == <<todolist, daysSinceAccountCreation, totalTasks, tasks>>
vars == <<todoListTable, taskTable, pc, op, user, createdAt, now, todolist,
          daysSinceAccountCreation, totalTasks, tasks, result, error, raised,
          issued, prev, seen, changes>>

\* ------------------------------------------------------------- values
Null == [kind |-> "null"]
NoResult == [kind |-> "pending"]
NoError == "none"
\* totalTasks before either statement of findAndCountAll has answered.
Unset == [count |-> 0, rows |-> EmptyBag, got |-> {}]

Number(n) == [kind |-> "number", value |-> n]
Counts(t, c, r) ==
    [kind |-> "counts", totalTasks |-> t, completedTasks |-> c, remainingTasks |-> r]
InvalidDate == [kind |-> "Invalid date"]
DateString(d) == [kind |-> "date", day |-> d]

\* ------------------------------------------------------------- queries
\* the rows of a table that a where clause selects
Select(table, selected) == [t \in selected |-> table[t]]

\* findOne({where: {userId}, attributes: ['id'], include: 'tasks'}): the row's id,
\* or null; the included tasks are never read.
FindOne(userId) ==
    LET found == {l \in todoListTable : l.userId = userId}
    IN  IF found = {} THEN Null
        ELSE [kind |-> "row", id |-> (CHOOSE l \in found : TRUE).id]

\* the slip of filtering by the user's id in place of the list's id
WhereUserId(table, listId) ==
    Select(table, {t \in BagToSet(table) : t.todoListId = user})

\* where: {todoListId: todolist.id}
WhereTodoList(table, listId) ==
    Select(table, {t \in BagToSet(table) : t.todoListId = listId})

\* the slip of leaving completionStatus out of the filter
WhereAnyStatus(table, listId) ==
    Select(table, {t \in BagToSet(table) : t.todoListId = listId})

\* where: {todoListId: todolist.id, completionStatus: true}
WhereCompleted(table, listId) ==
    Select(table, {t \in BagToSet(table) : t.todoListId = listId /\ t.completionStatus})

\* SQL "completionDateTime" > "dueDateTime": not true when either side is NULL.
SqlGt(a, b) == a # NullTime /\ b # NullTime /\ a > b

\* the slip of Op.gte for Op.gt
WhereNotEarly(table, listId) ==
    Select(table, {t \in BagToSet(table) :
                      /\ t.todoListId = listId
                      /\ t.completionStatus
                      /\ t.completionDateTime >= t.dueDateTime})

\* where: {todoListId, completionStatus: true, completionDateTime: {[Op.gt]: col('dueDateTime')}}
WhereLate(table, listId) ==
    Select(table, {t \in BagToSet(table) :
                      /\ t.todoListId = listId
                      /\ t.completionStatus
                      /\ SqlGt(t.completionDateTime, t.dueDateTime)})

\* The orders in which a query without ORDER BY may return the rows of a bag.
RECURSIVE RowOrders(_)
RowOrders(B) ==
    IF B = EmptyBag THEN {<<>>}
    ELSE UNION {{<<t>> \o s : s \in RowOrders(B (-) SetToBag({t}))} : t \in BagToSet(B)}

\* attributes: ['completionDateTime']
Project(rows) == [i \in 1..Len(rows) |-> [completionDateTime |-> rows[i].completionDateTime]]

\* ------------------------------------------------------------- pure steps
\* the slip of counting calendar dates: moment().startOf('day').diff(moment(b).startOf('day'), 'days')
CalendarDiffDays(a, b) == (a \div TicksPerDay) - (b \div TicksPerDay)

\* moment().diff(user.createdAt, 'days'): the difference in days, truncated toward zero.
MomentDiffDays(a, b) ==
    IF a >= b THEN (a - b) \div TicksPerDay ELSE 0 - ((b - a) \div TicksPerDay)

\* the slip of Math.round for Math.floor
RoundedTasksPerDay(completedTasks, days) == (2 * completedTasks + days) \div (2 * days)

\* Math.floor(completedTasks / daysSinceAccountCreation)
AvgTasksPerDay(completedTasks, days) == completedTasks \div days

\* moment(task.completionDateTime).format('YYYY-MM-DD')
FormatDate(t) == IF t = NullTime THEN InvalidDate ELSE DateString(t \div TicksPerDay)

\* grouped[date] = (grouped[date] || 0) + 1, keys kept in insertion order
AddToGroup(grouped, date) ==
    IF \E i \in 1..Len(grouped) : grouped[i].date = date
    THEN [i \in 1..Len(grouped) |->
            IF grouped[i].date = date
            THEN [date |-> date, count |-> grouped[i].count + 1]
            ELSE grouped[i]]
    ELSE Append(grouped, [date |-> date, count |-> 1])

\* tasks.reduce(..., {}): Object.entries of the result, in key insertion order
RECURSIVE TasksByDate(_)
TasksByDate(rows) ==
    IF rows = <<>> THEN <<>>
    ELSE AddToGroup(TasksByDate(SubSeq(rows, 1, Len(rows) - 1)),
                    FormatDate(rows[Len(rows)].completionDateTime))

\* the slip of >= for >: a later date with an equal count takes the lead
IsNewLeaderOrEqual(count, maxCount) == count >= maxCount

\* if (count > maxCount)
IsNewLeader(count, maxCount) == count > maxCount

\* the for loop over Object.entries(tasksByDate): [maxDate, maxCount] after it
RECURSIVE FindMax(_)
FindMax(entries) ==
    IF entries = <<>> THEN [maxDate |-> Null, maxCount |-> 0]
    ELSE LET before == FindMax(SubSeq(entries, 1, Len(entries) - 1))
             e == entries[Len(entries)]
         IN  IF IsNewLeader(e.count, before.maxCount)
             THEN [maxDate |-> e.date, maxCount |-> e.count]
             ELSE before

\* the slip of returning 0 from every operation without a list
NeutralZero(o) ==
    IF o = "getTaskCount" THEN Counts(0, 0, 0) ELSE Number(0)

\* the value returned when the user has no TodoList
NeutralValue(o) ==
    CASE o = "getTaskCount" -> Counts(0, 0, 0)
      [] o = "getAvgTasksPerDay" -> Number(0)
      [] o = "getTasksNotCompletedOnTime" -> Number(0)
      [] o = "getDateWithMostCompletedTasks" -> Null

\* lines 34-43 of getTaskCount, given what findAndCountAll resolved with
TaskCountResult(tt) ==
    LET completedTasks ==
            BagCardinality(Select(tt.rows, {t \in BagToSet(tt.rows) : t.completionStatus}))
    IN  Counts(tt.count, completedTasks, tt.count - completedTasks)

\* <<N, K>>: the tasks, and the completed tasks, of user u's list in a Task table
ListCounts(u, table) ==
    LET tl == FindOne(u)
    IN  IF tl = Null THEN <<0, 0>>
        ELSE <<BagCardinality(WhereTodoList(table, tl.id)),
               BagCardinality(WhereCompleted(table, tl.id))>>

\* ------------------------------------------------------------- initial state
Init ==
    /\ todoListTable \in SUBSET TodoLists
    /\ taskTable \in BagsUpTo(TaskRows({l.id : l \in todoListTable}), MaxTasks)
    /\ pc = "idle"
    /\ op = "none"
    /\ user = 0
    /\ createdAt = NullTime
    /\ now = NullTime
    /\ todolist = Null
    /\ daysSinceAccountCreation = NullTime
    /\ totalTasks = Unset
    /\ tasks = <<>>
    /\ result = NoResult
    /\ error = NoError
    /\ raised = NoError
    /\ issued = <<>>
    /\ prev = NoResult
    /\ seen = {}
    /\ changes = 0

\* ------------------------------------------------------------- the service
Settled == pc \in {"idle", "returned", "failed"}

\* return value: the promise resolves
Return(value) ==
    /\ pc' = "returned"
    /\ result' = value
    /\ UNCHANGED <<error, raised>>

\* the slip of catching the rejection and returning the neutral value
Swallow(e) ==
    /\ pc' = "returned"
    /\ result' = NeutralValue(op)
    /\ raised' = e
    /\ UNCHANGED error

\* An uncaught rejection of an awaited query rejects the operation's promise.
Throw(e) ==
    /\ pc' = "failed"
    /\ error' = e
    /\ raised' = e
    /\ UNCHANGED result

\* await this.getTodoListByUser(user.id): the lookup is sent
Enter(o, u) ==
    /\ pc' = "findOne"
    /\ op' = o
    /\ user' = u
    /\ todolist' = Null
    /\ daysSinceAccountCreation' = NullTime
    /\ totalTasks' = Unset
    /\ tasks' = <<>>
    /\ result' = NoResult
    /\ error' = NoError
    /\ raised' = NoError
    /\ issued' = <<"findOne">>
    /\ seen' = IF o = "getTaskCount" THEN {ListCounts(u, taskTable)} ELSE {}
    /\ changes' = 0
    /\ UNCHANGED store

\* A caller invokes one of the four operations.
Invoke(o, u) ==
    /\ Settled
    /\ Enter(o, u)
    /\ createdAt' = NullTime
    /\ now' = NullTime
    /\ prev' = NoResult

\* The caller repeats the call that has just returned: same operation, user and time.
Repeat ==
    /\ pc = "returned"
    /\ Enter(op, user)
    /\ prev' = result
    /\ UNCHANGED <<createdAt, now>>

\* The lookup fails in the data layer.
FindOneRejects(e) ==
    /\ pc = "findOne"
    /\ Throw(e)
    /\ UNCHANGED <<store, op, user, createdAt, now, locals, issued, prev, seen, changes>>

\* getTaskCount, lines 28-33: the lookup answers
GetTaskCountFindOne ==
    /\ pc = "findOne" /\ op = "getTaskCount"
    /\ todolist' = FindOne(user)
    /\ IF todolist' = Null
       THEN Return(NeutralValue(op)) /\ UNCHANGED issued
       ELSE /\ pc' = "findAndCountAll"
            /\ issued' = issued \o <<"count", "findAll">>
            /\ UNCHANGED <<result, error, raised>>
    /\ UNCHANGED <<store, op, user, createdAt, now, daysSinceAccountCreation,
                   totalTasks, tasks, prev, seen, changes>>

\* findAndCountAll sends a count and a findAll statement and resolves, once both
\* have answered, with {count, rows: count === 0 ? [] : rows}; lines 34-43 follow.
FindAndCountAllAnswer(stmt) ==
    /\ pc = "findAndCountAll"
    /\ stmt \notin totalTasks.got
    /\ LET answered ==
               IF stmt = "count"
               THEN [totalTasks EXCEPT
                        !.count = BagCardinality(WhereTodoList(taskTable, todolist.id)),
                        !.got = @ \cup {stmt}]
               ELSE [totalTasks EXCEPT
                        !.rows = WhereTodoList(taskTable, todolist.id),
                        !.got = @ \cup {stmt}]
           resolved ==
               [answered EXCEPT !.rows = IF answered.count = 0 THEN EmptyBag ELSE @]
       IN  IF answered.got = {"count", "findAll"}
           THEN totalTasks' = resolved /\ Return(TaskCountResult(resolved))
           ELSE totalTasks' = answered /\ UNCHANGED <<pc, result, error, raised>>
    /\ UNCHANGED <<store, op, user, createdAt, now, todolist,
                   daysSinceAccountCreation, tasks, issued, prev, seen, changes>>

\* getAvgTasksPerDay, lines 47-56: the lookup answers
GetAvgTasksPerDayFindOne ==
    /\ pc = "findOne" /\ op = "getAvgTasksPerDay"
    /\ todolist' = FindOne(user)
    /\ IF todolist' = Null
       THEN /\ Return(NeutralValue(op))
            /\ UNCHANGED <<createdAt, now, daysSinceAccountCreation, issued>>
       ELSE \E c \in 0..MaxTime, n \in 0..MaxNow :
            \* the account was created before the call; a repeated call reads the same clock
            /\ c <= n
            /\ createdAt = NullTime \/ (c = createdAt /\ n = now)
            /\ createdAt' = c
            /\ now' = n
            /\ daysSinceAccountCreation' = MomentDiffDays(n, c)
            /\ IF daysSinceAccountCreation' = 0
               THEN Return(Number(0)) /\ UNCHANGED issued
               ELSE /\ pc' = "count"
                    /\ issued' = Append(issued, "count")
                    /\ UNCHANGED <<result, error, raised>>
    /\ UNCHANGED <<store, op, user, totalTasks, tasks, prev, seen, changes>>

\* getAvgTasksPerDay, lines 54-57: the count answers
GetAvgTasksPerDayCount ==
    /\ pc = "count" /\ op = "getAvgTasksPerDay"
    /\ Return(Number(AvgTasksPerDay(BagCardinality(WhereCompleted(taskTable, todolist.id)),
                                     daysSinceAccountCreation)))
    /\ UNCHANGED <<store, op, user, createdAt, now, locals, issued, prev, seen, changes>>

\* getTasksNotCompletedOnTime, lines 61-63: the lookup answers
GetTasksNotCompletedOnTimeFindOne ==
    /\ pc = "findOne" /\ op = "getTasksNotCompletedOnTime"
    /\ todolist' = FindOne(user)
    /\ IF todolist' = Null
       THEN Return(NeutralValue(op)) /\ UNCHANGED issued
       ELSE /\ pc' = "count"
            /\ issued' = Append(issued, "count")
            /\ UNCHANGED <<result, error, raised>>
    /\ UNCHANGED <<store, op, user, createdAt, now, daysSinceAccountCreation,
                   totalTasks, tasks, prev, seen, changes>>

\* getTasksNotCompletedOnTime, lines 63-69: the count answers
GetTasksNotCompletedOnTimeCount ==
    /\ pc = "count" /\ op = "getTasksNotCompletedOnTime"
    /\ Return(Number(BagCardinality(WhereLate(taskTable, todolist.id))))
    /\ UNCHANGED <<store, op, user, createdAt, now, locals, issued, prev, seen, changes>>

\* getDateWithMostCompletedTasks, lines 73-78: the lookup answers
GetDateWithMostCompletedTasksFindOne ==
    /\ pc = "findOne" /\ op = "getDateWithMostCompletedTasks"
    /\ todolist' = FindOne(user)
    /\ IF todolist' = Null
       THEN Return(NeutralValue(op)) /\ UNCHANGED issued
       ELSE /\ pc' = "findAll"
            /\ issued' = Append(issued, "findAll")
            /\ UNCHANGED <<result, error, raised>>
    /\ UNCHANGED <<store, op, user, createdAt, now, daysSinceAccountCreation,
                   totalTasks, tasks, prev, seen, changes>>

\* getDateWithMostCompletedTasks, lines 75-97: findAll answers, in some row order
GetDateWithMostCompletedTasksFindAll ==
    /\ pc = "findAll" /\ op = "getDateWithMostCompletedTasks"
    /\ \E rows \in RowOrders(WhereCompleted(taskTable, todolist.id)) :
         /\ tasks' = Project(rows)
         /\ Return(FindMax(TasksByDate(tasks')).maxDate)
    /\ UNCHANGED <<store, op, user, createdAt, now, todolist,
                   daysSinceAccountCreation, totalTasks, issued, prev, seen, changes>>

\* A statement of the follow-up Task query fails in the data layer.
TaskQueryRejects(e) ==
    /\ pc \in {"findAndCountAll", "count", "findAll"}
    /\ Throw(e)
    /\ UNCHANGED <<store, op, user, createdAt, now, locals, issued, prev, seen, changes>>

Next ==
    \/ \E o \in OpNames, u \in Users : Invoke(o, u)
    \/ \E e \in Errors : FindOneRejects(e)
    \/ GetTaskCountFindOne
    \/ \E stmt \in {"count", "findAll"} : FindAndCountAllAnswer(stmt)
    \/ GetAvgTasksPerDayFindOne
    \/ GetAvgTasksPerDayCount
    \/ GetTasksNotCompletedOnTimeFindOne
    \/ GetTasksNotCompletedOnTimeCount
    \/ GetDateWithMostCompletedTasksFindOne
    \/ GetDateWithMostCompletedTasksFindAll
    \/ \E e \in Errors : TaskQueryRejects(e)

Spec == Init /\ [][Next]_vars

\* The service with callers that also repeat a call that has just returned.
NextRepeat == Next \/ Repeat

SpecRepeat == Init /\ [][NextRepeat]_vars

\* ------------------------------------------------------------- other request handlers
\* The tasks collaborator, serving other requests while a report is in flight.
InFlight == <<pc, op, user, createdAt, now, todolist, daysSinceAccountCreation,
              totalTasks, tasks, result, error, raised, issued, prev>>

Observe(table) ==
    /\ ~Settled
    /\ changes < MaxChanges
    /\ changes' = changes + 1
    /\ seen' = IF op = "getTaskCount" THEN seen \cup {ListCounts(user, table)} ELSE seen

CreateTask(listId, due) ==
    /\ listId \in {l.id : l \in todoListTable}
    /\ BagCardinality(taskTable) < MaxTasks
    /\ taskTable' = taskTable (+) SetToBag({[todoListId |-> listId,
                                             completionStatus |-> FALSE,
                                             completionDateTime |-> NullTime,
                                             dueDateTime |-> due]})
    /\ Observe(taskTable')
    /\ UNCHANGED <<todoListTable, InFlight>>

CompleteTask(t, at) ==
    /\ BagIn(t, taskTable)
    /\ ~t.completionStatus
    /\ taskTable' = (taskTable (-) SetToBag({t}))
                    (+) SetToBag({[t EXCEPT !.completionStatus = TRUE,
                                            !.completionDateTime = at]})
    /\ Observe(taskTable')
    /\ UNCHANGED <<todoListTable, InFlight>>

DeleteTask(t) ==
    /\ BagIn(t, taskTable)
    /\ taskTable' = taskTable (-) SetToBag({t})
    /\ Observe(taskTable')
    /\ UNCHANGED <<todoListTable, InFlight>>

NextConcurrent ==
    \/ Next
    \/ \E l \in {x.id : x \in TodoLists}, d \in DueTimes : CreateTask(l, d)
    \/ \E t \in BagToSet(taskTable), c \in CompletionTimes : CompleteTask(t, c)
    \/ \E t \in BagToSet(taskTable) : DeleteTask(t)

SpecConcurrent == Init /\ [][NextConcurrent]_vars

\* ------------------------------------------------------------- what the claims speak of
OwnsList(u) == \E l \in todoListTable : l.userId = u
OwnList(u) == (CHOOSE l \in todoListTable : l.userId = u).id

RECURSIVE Copies(_)
\* the number of Task rows among the row values S
Copies(S) ==
    IF S = {} THEN 0
    ELSE LET t == CHOOSE x \in S : TRUE IN taskTable[t] + Copies(S \ {t})

OwnRows(u) == {t \in DOMAIN taskTable : t.todoListId = OwnList(u)}
OtherRows(u) == {t \in DOMAIN taskTable : t.todoListId # OwnList(u)}
N(u) == Copies(OwnRows(u))
K(u) == Copies({t \in OwnRows(u) : t.completionStatus = TRUE})
CompletedOn(u, d) ==
    Copies({t \in OwnRows(u) : t.completionStatus = TRUE
                                /\ t.completionDateTime \div TicksPerDay = d})
Days == 0..(MaxTime \div TicksPerDay)
Returned(o) == pc = "returned" /\ op = o

\* C1: for a user who owns no TodoList each operation returns its neutral value
\* ({0,0,0}; 0; 0; null) after the lookup alone, whatever other users' lists
\* hold, and fails only if the data layer rejected the lookup.
C1_NoListNeutral ==
    (op # "none" /\ ~OwnsList(user)) =>
        /\ issued = <<"findOne">>
        /\ pc = "failed" => raised \in Errors
        /\ Returned("getTaskCount") =>
              result = [kind |-> "counts", totalTasks |-> 0,
                        completedTasks |-> 0, remainingTasks |-> 0]
        /\ Returned("getAvgTasksPerDay") => result = [kind |-> "number", value |-> 0]
        /\ Returned("getTasksNotCompletedOnTime") => result = [kind |-> "number", value |-> 0]
        /\ Returned("getDateWithMostCompletedTasks") => result = [kind |-> "null"]

C1_Witness ==
    /\ Returned("getDateWithMostCompletedTasks")
    /\ ~OwnsList(user)
    /\ \E t \in DOMAIN taskTable : t.completionStatus
    /\ result = [kind |-> "null"]

\* C2: with the store unchanging, getTaskCount for a user whose list holds N
\* tasks, K of them completed, returns totalTasks = N, completedTasks = K and
\* remainingTasks = N - K, counting none of the tasks of other lists.
C2_TaskCount ==
    (Returned("getTaskCount") /\ OwnsList(user)) =>
        result = [kind |-> "counts", totalTasks |-> N(user),
                  completedTasks |-> K(user), remainingTasks |-> N(user) - K(user)]

C2_Witness ==
    /\ Returned("getTaskCount")
    /\ OwnsList(user)
    /\ OtherRows(user) # {}
    /\ result = [kind |-> "counts", totalTasks |-> 2,
                 completedTasks |-> 1, remainingTasks |-> 1]

\* C3: for a user who has a list, getAvgTasksPerDay returns 0 when no whole day
\* has elapsed since createdAt, and otherwise the floor of the number of
\* completed tasks of the list divided by the days elapsed.
C3_AvgTasksPerDay ==
    (Returned("getAvgTasksPerDay") /\ OwnsList(user)) =>
        LET daysElapsed == (now - createdAt) \div TicksPerDay
        IN  /\ result.kind = "number"
            /\ daysElapsed = 0 => result.value = 0
            /\ daysElapsed > 0 =>
                  /\ result.value * daysElapsed <= K(user)
                  /\ K(user) < (result.value + 1) * daysElapsed

C3_Witness ==
    /\ Returned("getAvgTasksPerDay")
    /\ OwnsList(user)
    /\ K(user) = 3
    /\ now - createdAt = 2 * TicksPerDay
    /\ result = [kind |-> "number", value |-> 1]

CalendarDays == (now \div TicksPerDay) - (createdAt \div TicksPerDay)

\* C4 as stated: daysSinceAccountCreation is the number of calendar-date
\* boundaries between the date of createdAt and the date of now.
C4_CalendarDays ==
    daysSinceAccountCreation # NullTime => daysSinceAccountCreation = CalendarDays

\* C4 as amended: daysSinceAccountCreation is the number of whole days
\* (TicksPerDay ticks each) elapsed from createdAt to now: 0 exactly when less
\* than one day has elapsed, and the calendar-date difference or one less.
C4_WholeDaysElapsed ==
    daysSinceAccountCreation # NullTime =>
        /\ daysSinceAccountCreation * TicksPerDay <= now - createdAt
        /\ now - createdAt < (daysSinceAccountCreation + 1) * TicksPerDay
        /\ daysSinceAccountCreation = 0 <=> now - createdAt < TicksPerDay
        /\ daysSinceAccountCreation \in {CalendarDays - 1, CalendarDays}

C4_Witness ==
    /\ Returned("getAvgTasksPerDay")
    /\ createdAt # NullTime
    /\ CalendarDays = 1
    /\ daysSinceAccountCreation = 0
    /\ K(user) > 0
    /\ result = [kind |-> "number", value |-> 0]

\* C5: getTasksNotCompletedOnTime returns the number of tasks of the user's
\* list with completionStatus = true and completionDateTime > dueDateTime;
\* tasks completed at or before dueDateTime and pending tasks are not counted.
C5_LateCompletions ==
    (Returned("getTasksNotCompletedOnTime") /\ OwnsList(user)) =>
        result = [kind |-> "number",
                  value |-> Copies({t \in OwnRows(user) :
                                      /\ t.completionStatus = TRUE
                                      /\ t.completionDateTime > t.dueDateTime})]

C5_Witness ==
    /\ Returned("getTasksNotCompletedOnTime")
    /\ OwnsList(user)
    /\ \E t \in OwnRows(user) : t.completionStatus /\ t.completionDateTime > t.dueDateTime
    /\ \E t \in OwnRows(user) : t.completionStatus /\ t.completionDateTime = t.dueDateTime
    /\ \E t \in OwnRows(user) : ~t.completionStatus
    /\ result = [kind |-> "number", value |-> 1]

\* the date of the i-th fetched row, and the place where a date is first met
DayOfRow(i) == tasks[i].completionDateTime \div TicksPerDay
FirstMet(d) == CHOOSE i \in 1..Len(tasks) :
                  DayOfRow(i) = d /\ \A j \in 1..(i - 1) : DayOfRow(j) # d

\* C6: with at least one completed task, getDateWithMostCompletedTasks returns
\* a date whose number of completed tasks is the maximum over all dates, and
\* among the dates tied for the maximum the one met first in the fetched rows.
C6_MostCompletedDate ==
    (Returned("getDateWithMostCompletedTasks") /\ OwnsList(user) /\ K(user) > 0) =>
        /\ result.kind = "date"
        /\ result.day \in Days
        /\ \A d \in Days :
              /\ CompletedOn(user, d) <= CompletedOn(user, result.day)
              /\ (d # result.day /\ CompletedOn(user, d) = CompletedOn(user, result.day))
                    => FirstMet(result.day) < FirstMet(d)

C6_Witness ==
    /\ Returned("getDateWithMostCompletedTasks")
    /\ Len(tasks) = 2
    /\ DayOfRow(1) = 1
    /\ DayOfRow(2) = 0
    /\ result = [kind |-> "date", day |-> 1]

\* C7: for a user who has a list, getDateWithMostCompletedTasks returns null
\* if and only if the list has no completed task; pending tasks are not among
\* the fetched rows and never make it return a date.
C7_NullIffNoneCompleted ==
    (Returned("getDateWithMostCompletedTasks") /\ OwnsList(user)) =>
        /\ result = [kind |-> "null"] <=> K(user) = 0
        /\ Len(tasks) = K(user)
        /\ result # [kind |-> "null"] => (result.kind = "date" /\ CompletedOn(user, result.day) > 0)

C7_Witness ==
    /\ Returned("getDateWithMostCompletedTasks")
    /\ OwnsList(user)
    /\ N(user) > 0
    /\ K(user) = 0
    /\ result = [kind |-> "null"]

\* C8: a failure of the lookup or of the follow-up Task query ends the
\* operation with that same failure; no result stands in for it, no statement
\* is sent again, and an operation returns only when no statement failed.
C8_FailurePropagates ==
    /\ raised # NoError => (pc = "failed" /\ error = raised /\ result = NoResult)
    /\ pc = "failed" => raised \in Errors
    /\ pc = "returned" => (raised = NoError /\ error = NoError)
    /\ issued \in {<<>>, <<"findOne">>, <<"findOne", "count">>, <<"findOne", "findAll">>,
                    <<"findOne", "count", "findAll">>}
    /\ (pc = "returned" /\ issued = <<"findOne">>) =>
          (~OwnsList(user) \/ daysSinceAccountCreation = 0)

C8_Witness ==
    /\ pc = "failed"
    /\ op = "getTaskCount"
    /\ issued = <<"findOne", "count", "findAll">>
    /\ totalTasks.got # {}
    /\ error = "QueryError"

\* C9: no invocation changes the Users, TodoLists or Tasks, and a call
\* repeated on the unchanged store at the same time returns the same result.
C9_ReadOnlyRepeatable ==
    [][/\ store' = store
       /\ (pc' = "returned" /\ prev' # NoResult) => result' = prev']_vars

\* C10: whatever other handlers do to the tasks during a getTaskCount call,
\* its result has totalTasks = completedTasks + remainingTasks with
\* 0 <= completedTasks <= totalTasks and remainingTasks >= 0, and equals the
\* counts of the user's list in one state of the store during the call.
C10_ConsistentSnapshot ==
    Returned("getTaskCount") =>
        /\ result.totalTasks = result.completedTasks + result.remainingTasks
        /\ 0 <= result.completedTasks
        /\ result.completedTasks <= result.totalTasks
        /\ result.remainingTasks >= 0
        /\ <<result.totalTasks, result.completedTasks>> \in seen

====
